---- MODULE Spec2Model ----
(***************************************************************************)
(* Model of the dev-server ProcessManager of kode-dock                     *)
(* (electron/processManager.ts): the processes / detectedUrls maps, the    *)
(* three launch modes, the URL detector, killProcess with its OS sweep,    *)
(* isProcessRunning and cleanup, together with the callbacks of the        *)
(* spawned child processes (data, exit, error, close, detection timeout).  *)
(***************************************************************************)
EXTENDS Integers, Sequences, FiniteSets, TLC

(***************************************************************************)
(* Bounds of the model.                                                    *)
(***************************************************************************)
MaxHandles == 2     \* child processes spawned with piped stdio per run
MaxPids == 1        \* interpreter processes in the OS process table
MaxStops == 1       \* killProcess calls suspended on the OS at a time

(***************************************************************************)
(* Text.  A string is a sequence of characters; a character is a one-      *)
(* letter string, or one of the names ESC, BEL, LF for the control         *)
(* characters \x1B, \x07, \n.                                              *)
(***************************************************************************)
Digits == {"0", "1", "2", "3", "4", "5", "6", "7", "8", "9"}
UpperSeq ==
  <<"A", "B", "C", "D", "E", "F", "G", "H", "I", "J", "K", "L", "M",
    "N", "O", "P", "Q", "R", "S", "T", "U", "V", "W", "X", "Y", "Z">>
LowerSeq ==
  <<"a", "b", "c", "d", "e", "f", "g", "h", "i", "j", "k", "l", "m",
    "n", "o", "p", "q", "r", "s", "t", "u", "v", "w", "x", "y", "z">>
Range(s) == {s[i] : i \in DOMAIN s}
IsDigit(c) == c \in Digits
IsLetter(c) == c \in Range(UpperSeq) \cup Range(LowerSeq)
\* [\x00-\x1F\x7F-\x9F]
IsControl(c) == c \in {"ESC", "BEL", "LF", "CR", "TAB"}
\* \s on text whose control characters are kept or removed alike
IsSpace(c) == c \in {" ", "LF", "CR", "TAB"}
\* case folding of the i flag
Lower(c) ==
  IF c \in Range(UpperSeq)
  THEN LowerSeq[CHOOSE i \in DOMAIN UpperSeq : UpperSeq[i] = c]
  ELSE c

\* the text from index i on
From(s, i) == SubSeq(s, i, Len(s))

\* a literal of a pattern under the i flag, tried at index i
LitAt(s, i, lit) ==
  /\ i + Len(lit) - 1 <= Len(s)
  /\ \A j \in 1..Len(lit) : Lower(s[i + j - 1]) = Lower(lit[j])

\* the first index >= i whose character fails the test set cls, Len(s)+1 if none
RECURSIVE SkipWhile(_, _, _)
SkipWhile(s, i, cls) ==
  IF i <= Len(s) /\ s[i] \in cls THEN SkipWhile(s, i + 1, cls) ELSE i

\* the first index >= i that holds character c, 0 if none
RECURSIVE IndexOf(_, _, _)
IndexOf(s, i, c) ==
  IF i > Len(s) THEN 0
  ELSE IF s[i] = c THEN i
  ELSE IndexOf(s, i + 1, c)

\* .replace(/\x1B\[[0-9;]*[a-zA-Z]/g, "")
RECURSIVE StripCsi(_)
StripCsi(s) ==
  IF s = <<>> THEN <<>>
  ELSE
    LET e == SkipWhile(s, 3, Digits \cup {";"})
    IN IF /\ Len(s) >= 3
          /\ s[1] = "ESC"
          /\ s[2] = "["
          /\ e <= Len(s)
          /\ IsLetter(s[e])
       THEN StripCsi(From(s, e + 1))
       ELSE <<s[1]>> \o StripCsi(Tail(s))

\* .replace(/\x1B\][^\x07]*\x07/g, "")
RECURSIVE StripOsc(_)
StripOsc(s) ==
  IF s = <<>> THEN <<>>
  ELSE
    LET b == IndexOf(s, 3, "BEL")
    IN IF Len(s) >= 3 /\ s[1] = "ESC" /\ s[2] = "]" /\ b > 0
       THEN StripOsc(From(s, b + 1))
       ELSE <<s[1]>> \o StripOsc(Tail(s))

\* .replace(/[\x00-\x1F\x7F-\x9F]/g, "")
StripControl(s) == SelectSeq(s, LAMBDA c : ~IsControl(c))

cleanOutput(output) == StripControl(StripOsc(StripCsi(output)))

Localhost == <<"l", "o", "c", "a", "l", "h", "o", "s", "t">>
Loopback4 == <<"1", "2", "7", ".", "0", ".", "0", ".", "1">>
Loopback6 == <<"[", ":", ":", "1", "]">>
Http == <<"h", "t", "t", "p">>
HttpScheme == <<"h", "t", "t", "p", ":", "/", "/">>

\* host:\d+ tried at index i: the index after the last digit, 0 if no match
HostPortEnd(s, i, host) ==
  LET p == i + Len(host)
      e == SkipWhile(s, p + 1, Digits)
  IN IF LitAt(s, i, host) /\ p <= Len(s) /\ s[p] = ":" /\ e > p + 1
     THEN e ELSE 0

\* https?:\/\/host:\d+ tried at index i: the index after the match, 0 if none
SchemeEnd(s, i, host) ==
  IF ~LitAt(s, i, Http) THEN 0
  ELSE
    LET j == IF LitAt(s, i + 4, <<"s">>) THEN i + 5 ELSE i + 4
    IN IF LitAt(s, j, <<":", "/", "/">>) THEN HostPortEnd(s, j + 3, host) ELSE 0

\* (?:^|\s)(host:\d+)(?:\s|$) tried at index i: <<first, last>> of the group, <<>> if none
BareAt(s, i, host) ==
  LET tryAt(h) ==
        LET e == HostPortEnd(s, h, host)
        IN IF e > 0 /\ (e > Len(s) \/ IsSpace(s[e])) THEN <<h, e - 1>> ELSE <<>>
      atStart == IF i = 1 THEN tryAt(1) ELSE <<>>
      afterSpace == IF IsSpace(s[i]) THEN tryAt(i + 1) ELSE <<>>
  IN IF atStart # <<>> THEN atStart ELSE afterSpace

\* matches[0] of cleanOutput.match(pattern) for the patterns with a scheme
RECURSIVE FirstScheme(_, _, _)
FirstScheme(s, i, host) ==
  IF i > Len(s) THEN <<>>
  ELSE IF SchemeEnd(s, i, host) > 0 THEN SubSeq(s, i, SchemeEnd(s, i, host) - 1)
  ELSE FirstScheme(s, i + 1, host)

\* matches[0].trim() of cleanOutput.match(pattern) for the bare patterns
RECURSIVE FirstBare(_, _, _)
FirstBare(s, i, host) ==
  IF i > Len(s) THEN <<>>
  ELSE IF BareAt(s, i, host) # <<>>
       THEN SubSeq(s, BareAt(s, i, host)[1], BareAt(s, i, host)[2])
  ELSE FirstBare(s, i + 1, host)

\* the first non-empty element of ms, <<>> when there is none
RECURSIVE FirstFound(_, _)
FirstFound(ms, i) ==
  IF i > Len(ms) THEN <<>>
  ELSE IF ms[i] # <<>> THEN ms[i]
  ELSE FirstFound(ms, i + 1)

\* the first pattern of urlPatterns with a match decides; <<>> when none has one
firstMatch(clean) ==
  FirstFound(<<FirstScheme(clean, 1, Localhost),
               FirstScheme(clean, 1, Loopback4),
               FirstScheme(clean, 1, Loopback6),
               FirstBare(clean, 1, Localhost),
               FirstBare(clean, 1, Loopback4)>>, 1)

\* url.startsWith("http"), case-sensitive
StartsWithHttp(url) == Len(url) >= 4 /\ SubSeq(url, 1, 4) = Http

\* url.replace(/\/$/, "")
StripSlash(url) ==
  IF url # <<>> /\ url[Len(url)] = "/" THEN SubSeq(url, 1, Len(url) - 1) ELSE url

\* the URL extractUrl returns for the match m of a pattern, <<>> for null
Normalised(m) ==
  IF m = <<>> THEN <<>>
  ELSE StripSlash(IF StartsWithHttp(m) THEN m ELSE HttpScheme \o m)

\* extractUrl: the normalised URL of a chunk, <<>> for null
extractUrl(output) == Normalised(firstMatch(cleanOutput(output)))


(***************************************************************************)
(* The manager's state and its collaborators.                              *)
(***************************************************************************)
\* project paths; "/app" is a substring of "/app2"
Keys == {"/app", "/app2"}
\* commandLine.includes(path) / grep "path"
Contains(cmd, path) == cmd = path \/ (path = "/app" /\ cmd = "/app2")

\* process.platform; "darwin" launches its terminal the way "win32" does (one
\* spawn inside the try block) and sweeps the process table the way "linux" does
Platforms == {"win32", "linux"}
\* child_process.spawn: a child with a pid, a child without one (the failure is
\* reported later by an 'error' event), or a synchronous exception
SpawnOutcomes == {"ok", "nopid", "throw"}
\* ChildProcess.kill on an open handle: signal sent (killed becomes true), no such
\* process, another errno (an 'error' event is emitted before kill returns),
\* or an exception
KillOutcomes == {"ok", "esrch", "eperm", "throw"}
\* execAsync of the process query: rejected, no output, output JSON.parse
\* rejects, or a process list
QueryOutcomes == {"error", "empty", "garbage", "list"}

MaxSets == 1    \* URL-bearing chunks accepted after the first assignment

NoUrl == <<>>
LocalPrefix == <<"L", "o", "c", "a", "l", ":", " ">>
Chunk3000 ==
  LocalPrefix \o HttpScheme \o Localhost \o <<":", "3", "0", "0", "0", "/", "LF">>
Chunk4000 ==
  <<"ESC", "[", "3", "2", "m">> \o HttpScheme \o Localhost
    \o <<":", "4", "0", "0", "0", "ESC", "[", "0", "m">>
ChunkPlain == <<"c", "o", "m", "p", "i", "l", "i", "n", "g", "LF">>
\* the output chunks the child processes write
Chunks == {Chunk3000, Chunk4000, ChunkPlain}
\* "ready on 127.0.0.1:8080"
ChunkBare ==
  <<"r", "e", "a", "d", "y", " ", "o", "n", " ">> \o Loopback4
    \o <<":", "8", "0", "8", "0">>
\* "Server: HTTP://LOCALHOST:3000/"
ChunkUpper ==
  <<"S", "e", "r", "v", "e", "r", ":", " ", "H", "T", "T", "P", ":", "/", "/",
    "L", "O", "C", "A", "L", "H", "O", "S", "T", ":", "3", "0", "0", "0", "/">>
\* "https://[::1]:5173/ ready"
ChunkSecure ==
  <<"h", "t", "t", "p", "s", ":", "/", "/">> \o Loopback6
    \o <<":", "5", "1", "7", "3", "/", " ", "r", "e", "a", "d", "y">>
\* "localhost:9000 and http://127.0.0.1:9001"
ChunkTwo ==
  Localhost \o <<":", "9", "0", "0", "0", " ", "a", "n", "d", " ">>
    \o HttpScheme \o Loopback4 \o <<":", "9", "0", "0", "1">>
\* the chunks of the dev servers of several tools
UrlChunks == Chunks \cup {ChunkBare, ChunkUpper, ChunkSecure, ChunkTwo}

\* the places where a write of Chunk3000 can be cut inside its URL: the first
\* piece ends at index i, from the "h" of the scheme to the last digit but one
SplitPositions ==
  (Len(LocalPrefix) + 1)..(SchemeEnd(Chunk3000, Len(LocalPrefix) + 1, Localhost) - 2)
\* the two chunks the listener gets when the write is cut after index i
SplitAt(i) == <<SubSeq(Chunk3000, 1, i), From(Chunk3000, i + 1)>>
SplitChunks == UNION {{SplitAt(i)[1], SplitAt(i)[2]} : i \in SplitPositions}

\* "http://localhost:51\n73/ ready": a URL, a line break, and a number
ChunkWrapped ==
  HttpScheme \o Localhost
    \o <<":", "5", "1", "LF", "7", "3", "/", " ", "r", "e", "a", "d", "y">>
JoinChunks == {Chunk4000, ChunkWrapped, ChunkPlain}

UrlOf == [c \in UrlChunks \cup SplitChunks \cup JoinChunks |-> extractUrl(c)]

VARIABLES
  platform,       \* process.platform
  processes,      \* this.processes: the entries <<path, handle>> in insertion order
  detectedUrls,   \* this.detectedUrls
  handles,        \* the ChildProcess objects spawned with piped stdio
  osProcs,        \* the interpreter processes of the OS process table
  stops,          \* killProcess calls suspended on execAsync
  act             \* the last step: the public call that returned and its result,
                  \* and the calls the step made on its collaborators

vars == <<platform, processes, detectedUrls, handles, osProcs, stops, act>>

HandleIds == 1..MaxHandles
Pids == 1..MaxPids
StopIds == 1..MaxStops

FreeHandle ==
  [kind |-> "free", path |-> "", pid |-> FALSE, watch |-> FALSE,
   handlers |-> FALSE, phase |-> "closed", killed |-> FALSE, urlFound |-> FALSE,
   timer |-> "none", errPending |-> FALSE, sets |-> 0, opens |-> 0]
\* a ChildProcess after its 'close' event: no listener of it can run again and
\* no map refers to it
ClosedHandle == [FreeHandle EXCEPT !.kind = "closed"]
NoProc == [cmd |-> "", st |-> "none"]
IdleStop == [st |-> "idle", path |-> "", hadLive |-> FALSE, pids |-> <<>>, killed |-> 0]
NoSignals == [h \in HandleIds |-> 0]
NoAct ==
  [op |-> "none", path |-> "", terminal |-> FALSE, browser |-> FALSE, res |-> "",
   h |-> 0, hadLive |-> FALSE, env |-> "", again |-> FALSE,
   signals |-> NoSignals, terminals |-> 0, killed |-> 0, url |-> NoUrl]

\* Map<string, ChildProcess>
Has(p, k) == \E i \in DOMAIN p : p[i].path = k
Get(p, k) == IF Has(p, k) THEN p[CHOOSE i \in DOMAIN p : p[i].path = k].proc ELSE 0
Set(p, k, h) ==
  IF Has(p, k)
  THEN [i \in DOMAIN p |-> IF p[i].path = k THEN [path |-> k, proc |-> h] ELSE p[i]]
  ELSE Append(p, [path |-> k, proc |-> h])
Delete(p, k) == SelectSeq(p, LAMBDA e : e.path # k)

\* the manager's state as the code of one callback turn reads and writes it,
\* with the kill() calls (k) and terminal launches (t) the turn has made
Mem == [p |-> processes, u |-> detectedUrls, h |-> handles, k |-> NoSignals, t |-> 0]

\* clearTimeout(timeoutHandle)
ClearTimer(m, h) ==
  IF m.h[h].timer = "armed" THEN [m EXCEPT !.h[h].timer = "cleared"] ELSE m

\* 'exit' and 'error' listeners without this.detectedUrls.delete(projectPath)
OnExitOrErrorKeepsUrl(m, h) ==
  IF ~m.h[h].handlers THEN m
  ELSE IF m.h[h].kind = "bg"
       THEN [m EXCEPT !.p = Delete(m.p, m.h[h].path)]
  ELSE ClearTimer(m, h)

\* the 'exit' and 'error' listeners of a child: launchInBackground removes the
\* two entries of the path, detectAndOpenUrl clears the detection timeout
OnExitOrError(m, h) ==
  IF ~m.h[h].handlers THEN m
  ELSE IF m.h[h].kind = "bg"
       THEN [m EXCEPT !.p = Delete(m.p, m.h[h].path),
                      !.u[m.h[h].path] = NoUrl]
  ELSE ClearTimer(m, h)

\* child.kill("SIGTERM"): [m: the state after the call, exc: it threw]
Kill(m, h, out) ==
  LET called == [m EXCEPT !.k[h] = @ + 1]
  IN IF m.h[h].phase # "run" THEN [m |-> called, exc |-> FALSE]
     ELSE IF out = "ok" THEN [m |-> [called EXCEPT !.h[h].killed = TRUE], exc |-> FALSE]
     ELSE IF out = "eperm" THEN [m |-> OnExitOrError(called, h), exc |-> FALSE]
     ELSE IF out = "throw" THEN [m |-> called, exc |-> TRUE]
     ELSE [m |-> called, exc |-> FALSE]

\* the outcomes of kill() on handle h that the model explores
KillChoices(h) ==
  IF h = 0 THEN {"ok"}
  ELSE IF handles[h].phase = "run" /\ ~handles[h].killed THEN KillOutcomes
  ELSE {"ok"}

\* the outcomes of the kill() calls of one cleanup
CleanupChoices ==
  {f \in [HandleIds -> KillOutcomes] :
     \A h \in HandleIds :
       f[h] \in (IF \E i \in DOMAIN processes : processes[i].proc = h
                 THEN KillChoices(h) ELSE {"ok"})}

\* the outcomes of the kill() a chunk of output can lead to
OutputChoices(h, chunk) ==
  IF handles[h].kind = "det" /\ ~handles[h].urlFound /\ UrlOf[chunk] # NoUrl
  THEN KillChoices(h) ELSE {"ok"}

\* a call whose exception nothing catches
Uncaught(r, msg) == r

\* try { ... } catch (error) { return {success: false, error: msg} }
Catch(r, msg) == IF r.exc THEN [r EXCEPT !.res = msg, !.exc = FALSE] ELSE r

\* the first free slot for a ChildProcess object, 0 when the bound is reached
FreeId(hs) ==
  IF \E i \in HandleIds : hs[i].kind = "free"
  THEN CHOOSE i \in HandleIds :
         hs[i].kind = "free" /\ \A j \in HandleIds : hs[j].kind = "free" => i <= j
  ELSE 0

\* the child spawn() returns for outcome "ok" or "nopid"
Spawned(kind, path, out) ==
  [FreeHandle EXCEPT !.kind = kind, !.path = path, !.pid = (out = "ok"),
                     !.phase = "run", !.errPending = (out = "nopid")]

\* the first terminal of the list whose spawn does not throw, 0 if every one throws
RECURSIVE FirstLaunched(_, _)
FirstLaunched(touts, i) ==
  IF i > Len(touts) THEN 0
  ELSE IF touts[i] # "throw" THEN i
  ELSE FirstLaunched(touts, i + 1)

\* launchInTerminal: touts are the outcomes of the spawn calls it may make
launchInTerminal(m, touts) ==
  LET opened(o) == IF o = "ok" THEN [m EXCEPT !.t = @ + 1] ELSE m
      first == FirstLaunched(touts, 1)
  IN IF platform \in {"win32", "darwin"}
     THEN IF touts[1] = "throw"
          THEN [m |-> m, res |-> "LaunchTerminalFailed"]
          ELSE [m |-> opened(touts[1]), res |-> "ok"]
     ELSE IF first = 0
          THEN [m |-> m, res |-> "NoTerminalEmulator"]
          ELSE [m |-> opened(touts[first]), res |-> "ok"]

\* a detectAndOpenUrl that registers the detector in this.processes
detectAndOpenUrlTracked(m, path, sout) ==
  LET h == FreeId(m.h)
  IN IF sout = "throw" THEN [m |-> m, h |-> 0, exc |-> TRUE]
     ELSE [m |-> [m EXCEPT !.h[h] = [Spawned("det", path, sout) EXCEPT
                                       !.watch = TRUE, !.handlers = TRUE,
                                       !.timer = "armed"],
                           !.p = Set(m.p, path, h)],
           h |-> h, exc |-> FALSE]

\* detectAndOpenUrl up to its return: the detector is spawned, the timeout armed
\* and the listeners attached
detectAndOpenUrl(m, path, sout) ==
  LET h == FreeId(m.h)
  IN IF sout = "throw" THEN [m |-> m, h |-> 0, exc |-> TRUE]
     ELSE [m |-> [m EXCEPT !.h[h] = [Spawned("det", path, sout) EXCEPT
                                       !.watch = TRUE, !.handlers = TRUE,
                                       !.timer = "armed"]],
           h |-> h, exc |-> FALSE]

\* launchInBackground without this.processes.set(projectPath, child)
launchInBackgroundUntracked(m, path, openInBrowser, sout) ==
  LET h == FreeId(m.h)
  IN IF sout = "throw"
     THEN [m |-> m, res |-> "", h |-> 0, url |-> NoUrl, exc |-> TRUE]
     ELSE IF sout = "nopid"
     THEN [m |-> [m EXCEPT !.h[h] = Spawned("bg", path, sout)],
           res |-> "NoPidAssigned", h |-> h, url |-> NoUrl, exc |-> FALSE]
     ELSE [m |-> [m EXCEPT !.h[h] = [Spawned("bg", path, sout) EXCEPT
                                       !.watch = openInBrowser, !.handlers = TRUE]],
           res |-> "ok", h |-> h, url |-> m.u[path], exc |-> FALSE]

\* a launchInBackground that registers the child before it tests its pid
launchInBackgroundSetFirst(m, path, openInBrowser, sout) ==
  LET h == FreeId(m.h)
  IN IF sout = "throw"
     THEN [m |-> m, res |-> "", h |-> 0, url |-> NoUrl, exc |-> TRUE]
     ELSE IF sout = "nopid"
     THEN [m |-> [m EXCEPT !.h[h] = Spawned("bg", path, sout),
                           !.p = Set(m.p, path, h)],
           res |-> "NoPidAssigned", h |-> h, url |-> NoUrl, exc |-> FALSE]
     ELSE [m |-> [m EXCEPT !.h[h] = [Spawned("bg", path, sout) EXCEPT
                                       !.watch = openInBrowser, !.handlers = TRUE],
                           !.p = Set(m.p, path, h)],
           res |-> "ok", h |-> h, url |-> m.u[path], exc |-> FALSE]

\* a launchInBackground that calls setupUrlDetection whatever openInBrowser is
launchInBackgroundWatching(m, path, openInBrowser, sout) ==
  LET h == FreeId(m.h)
  IN IF sout = "throw"
     THEN [m |-> m, res |-> "", h |-> 0, url |-> NoUrl, exc |-> TRUE]
     ELSE IF sout = "nopid"
     THEN [m |-> [m EXCEPT !.h[h] = Spawned("bg", path, sout)],
           res |-> "NoPidAssigned", h |-> h, url |-> NoUrl, exc |-> FALSE]
     ELSE [m |-> [m EXCEPT !.h[h] = [Spawned("bg", path, sout) EXCEPT
                                       !.watch = TRUE, !.handlers = TRUE],
                           !.p = Set(m.p, path, h)],
           res |-> "ok", h |-> h, url |-> m.u[path], exc |-> FALSE]

\* launchInBackground
launchInBackground(m, path, openInBrowser, sout) ==
  LET h == FreeId(m.h)
  IN IF sout = "throw"
     THEN [m |-> m, res |-> "", h |-> 0, url |-> NoUrl, exc |-> TRUE]
     ELSE IF sout = "nopid"
     THEN [m |-> [m EXCEPT !.h[h] = Spawned("bg", path, sout)],
           res |-> "NoPidAssigned", h |-> h, url |-> NoUrl, exc |-> FALSE]
     ELSE [m |-> [m EXCEPT !.h[h] = [Spawned("bg", path, sout) EXCEPT
                                       !.watch = openInBrowser, !.handlers = TRUE],
                           !.p = Set(m.p, path, h)],
           res |-> "ok", h |-> h, url |-> m.u[path], exc |-> FALSE]

\* the try block of startDevServer without the this.processes.has check
StartBodyUnchecked(m, path, openInBrowser, openInTerminal, touts, sout) ==
  IF openInTerminal
  THEN LET t == launchInTerminal(m, touts)
           d == detectAndOpenUrl(t.m, path, sout)
       IN IF t.res # "ok"
          THEN [m |-> t.m, res |-> t.res, h |-> 0, url |-> NoUrl, exc |-> FALSE]
          ELSE IF openInBrowser
          THEN [m |-> d.m, res |-> "ok", h |-> d.h, url |-> NoUrl, exc |-> d.exc]
          ELSE [m |-> t.m, res |-> "ok", h |-> 0, url |-> NoUrl, exc |-> FALSE]
  ELSE launchInBackground(m, path, openInBrowser, sout)

\* the body of startDevServer's try block
StartBody(m, path, openInBrowser, openInTerminal, touts, sout) ==
  IF Has(m.p, path)
  THEN [m |-> m, res |-> "AlreadyRunning", h |-> 0, url |-> NoUrl, exc |-> FALSE]
  ELSE IF openInTerminal
  THEN LET t == launchInTerminal(m, touts)
           d == detectAndOpenUrl(t.m, path, sout)
       IN IF t.res # "ok"
          THEN [m |-> t.m, res |-> t.res, h |-> 0, url |-> NoUrl, exc |-> FALSE]
          ELSE IF openInBrowser
          THEN [m |-> d.m, res |-> "ok", h |-> d.h, url |-> NoUrl, exc |-> d.exc]
          ELSE [m |-> t.m, res |-> "ok", h |-> 0, url |-> NoUrl, exc |-> FALSE]
  ELSE launchInBackground(m, path, openInBrowser, sout)

startDevServer(m, path, openInBrowser, openInTerminal, touts, sout) ==
  Catch(StartBody(m, path, openInBrowser, openInTerminal, touts, sout), "LaunchFailed")

\* what an exception that leaves a public method looks like to its caller
Returned(r) == IF r.exc THEN "threw" ELSE r.res

\* the spawn outcomes launchInTerminal can meet on this platform: on Linux the
\* terminals it tries throw up to the first that does not, and the outcome of
\* that one stands for the rest of the list
TerminalChoices(path, openInTerminal) ==
  IF ~openInTerminal \/ Has(processes, path) THEN {<<"ok">>}
  ELSE IF platform = "linux"
       THEN {[i \in 1..3 |-> IF i <= n THEN "throw" ELSE o] :
               n \in 0..3, o \in {"ok", "nopid"}}
  ELSE [1..1 -> SpawnOutcomes]

\* the outcomes of the spawn with piped stdio, when the call makes one
SpawnChoices(path, openInBrowser, openInTerminal) ==
  IF Has(processes, path) \/ (openInTerminal /\ ~openInBrowser) THEN {"ok"}
  ELSE SpawnOutcomes

\* the call follows at once a startDevServer for the path that returned success
AfterStart(path) == act.op = "start" /\ act.path = path /\ act.res = "ok"

\* the call follows at once a killProcess for the path that signalled the
\* tracked process and returned success
AfterStop(path) ==
  act.op = "stop" /\ act.path = path /\ act.res = "ok" /\ act.hadLive

\* startDevServer is called when the event loop is idle, or again with the same
\* options straight after it returned success for the path
StartDevServer(path, openInBrowser, openInTerminal, touts, sout) ==
  /\ \/ act = NoAct
     \/ /\ AfterStart(path)
        /\ act.terminal = openInTerminal
        /\ act.browser = openInBrowser
  /\ ~Has(processes, path) /\ (openInBrowser \/ ~openInTerminal) => FreeId(handles) # 0
  /\ LET r == startDevServer(Mem, path, openInBrowser, openInTerminal, touts, sout)
     IN /\ processes' = r.m.p
        /\ detectedUrls' = r.m.u
        /\ handles' = r.m.h
        /\ act' = [NoAct EXCEPT !.op = "start", !.path = path,
                                !.signals = r.m.k, !.terminals = r.m.t,
                                !.terminal = openInTerminal, !.browser = openInBrowser,
                                !.res = Returned(r), !.h = r.h, !.url = r.url,
                                !.env = IF ~openInTerminal THEN ""
                                        ELSE IF \E i \in DOMAIN touts : touts[i] = "ok"
                                        THEN "terminal" ELSE "noTerminal",
                                !.again = AfterStart(path)]
  /\ UNCHANGED <<platform, osProcs, stops>>

\* processOutput without the urlFound latch
processOutputUnlatched(m, h, url, kout) ==
  LET found == [m EXCEPT !.h[h].urlFound = TRUE, !.h[h].sets = @ + 1,
                         !.h[h].opens = @ + 1, !.u[m.h[h].path] = url]
      cleared == ClearTimer(found, h)
  IN IF url = NoUrl THEN m
     ELSE IF m.h[h].kind = "bg" THEN found
     ELSE IF cleared.h[h].killed THEN cleared
     ELSE Kill(cleared, h, kout).m

\* a processOutput that leaves the detector running when it has found a URL
processOutputKeepsDetector(m, h, url, kout) ==
  LET found == [m EXCEPT !.h[h].urlFound = TRUE, !.h[h].sets = @ + 1,
                         !.h[h].opens = @ + 1, !.u[m.h[h].path] = url]
      cleared == ClearTimer(found, h)
  IN IF m.h[h].urlFound \/ url = NoUrl THEN m
     ELSE IF m.h[h].kind = "bg" THEN found
     ELSE cleared

\* processOutput of setupUrlDetection and of detectAndOpenUrl, for a chunk of
\* which extractUrl returns url
processOutput(m, h, url, kout) ==
  LET found == [m EXCEPT !.h[h].urlFound = TRUE, !.h[h].sets = @ + 1,
                         !.h[h].opens = @ + 1, !.u[m.h[h].path] = url]
      cleared == ClearTimer(found, h)
  IN IF m.h[h].urlFound \/ url = NoUrl THEN m
     ELSE IF m.h[h].kind = "bg" THEN found
     ELSE IF cleared.h[h].killed THEN cleared
     ELSE Kill(cleared, h, kout).m

\* a 'data' event of stdout or stderr of child h, when the event loop is idle or
\* straight after killProcess returned success for its path; a chunk extractUrl
\* finds a URL in is observed (again: the listener had found a URL before)
Output(h, chunk, kout) ==
  /\ act = NoAct \/ AfterStop(handles[h].path)
  /\ handles[h].pid
  /\ handles[h].phase # "closed"
  /\ handles[h].sets <= MaxSets
  /\ LET m == IF handles[h].watch THEN processOutput(Mem, h, UrlOf[chunk], kout) ELSE Mem
     IN /\ processes' = m.p
        /\ detectedUrls' = m.u
        /\ handles' = m.h
        /\ act' = IF UrlOf[chunk] = NoUrl THEN NoAct
                  ELSE [NoAct EXCEPT !.op = "data", !.path = handles[h].path, !.h = h,
                                     !.again = handles[h].urlFound, !.signals = m.k,
                                     !.env = IF AfterStop(handles[h].path)
                                             THEN "afterStop" ELSE ""]
  /\ UNCHANGED <<platform, osProcs, stops>>

\* the 'exit' event of child h
ProcExit(h) ==
  /\ act = NoAct
  /\ handles[h].pid
  /\ handles[h].phase = "run"
  /\ LET m == OnExitOrError([Mem EXCEPT !.h[h].phase = "exited"], h)
     IN /\ processes' = m.p
        /\ detectedUrls' = m.u
        /\ handles' = m.h
        /\ act' = [NoAct EXCEPT !.signals = m.k]
  /\ UNCHANGED <<platform, osProcs, stops>>

\* the 'error' event of a child that could not be spawned
ProcError(h) ==
  /\ act = NoAct
  /\ handles[h].errPending
  /\ LET m == OnExitOrError([Mem EXCEPT !.h[h].phase = "exited",
                                        !.h[h].errPending = FALSE], h)
     IN /\ processes' = m.p
        /\ detectedUrls' = m.u
        /\ handles' = m.h
        /\ act' = [NoAct EXCEPT !.signals = m.k]
  /\ UNCHANGED <<platform, osProcs, stops>>

\* the 'close' event of child h: its output streams have ended
ProcClose(h) ==
  /\ act = NoAct
  /\ handles[h].phase = "exited"
  /\ handles' = [handles EXCEPT ![h] = ClosedHandle]
  /\ act' = NoAct
  /\ UNCHANGED <<platform, processes, detectedUrls, osProcs, stops>>

\* a setTimeout callback that does not kill the detector
DetectionTimeoutIdle(h, kout) ==
  /\ act = NoAct
  /\ handles[h].kind = "det"
  /\ handles[h].timer = "armed"
  /\ ~handles[h].errPending
  /\ handles' = [handles EXCEPT ![h].timer = "fired"]
  /\ act' = NoAct
  /\ UNCHANGED <<platform, processes, detectedUrls, osProcs, stops>>

\* the setTimeout callback of detectAndOpenUrl
DetectionTimeout(h, kout) ==
  /\ act = NoAct
  /\ handles[h].kind = "det"
  /\ handles[h].timer = "armed"
  /\ ~handles[h].errPending
  /\ LET fired == [Mem EXCEPT !.h[h].timer = "fired"]
         m == IF ~fired.h[h].urlFound /\ ~fired.h[h].killed
              THEN Kill(fired, h, kout).m ELSE fired
     IN /\ processes' = m.p
        /\ detectedUrls' = m.u
        /\ handles' = m.h
        /\ act' = [NoAct EXCEPT !.signals = m.k]
  /\ UNCHANGED <<platform, osProcs, stops>>


\* a killProcess that forgets the tracked child only when kill() returned true
KillTrackedIfDelivered(m, path, kout) ==
  LET tracked == Get(m.p, path)
      k == Kill(m, tracked, kout)
  IN IF tracked # 0 /\ ~m.h[tracked].killed
     THEN IF k.exc
          THEN [m |-> k.m, res |-> "", live |-> TRUE, exc |-> TRUE]
          ELSE [m |-> IF k.m.h[tracked].killed
                      THEN [k.m EXCEPT !.p = Delete(k.m.p, path)] ELSE k.m,
                res |-> "pending", live |-> TRUE, exc |-> FALSE]
     ELSE [m |-> m, res |-> "pending", live |-> FALSE, exc |-> FALSE]

\* killProcess up to its first await: the tracked child is signalled and forgotten
KillTracked(m, path, kout) ==
  LET tracked == Get(m.p, path)
      k == Kill(m, tracked, kout)
  IN IF tracked # 0 /\ ~m.h[tracked].killed
     THEN IF k.exc
          THEN [m |-> k.m, res |-> "", live |-> TRUE, exc |-> TRUE]
          ELSE [m |-> [k.m EXCEPT !.p = Delete(k.m.p, path)],
                res |-> "pending", live |-> TRUE, exc |-> FALSE]
     ELSE [m |-> m, res |-> "pending", live |-> FALSE, exc |-> FALSE]

killProcess(m, path, kout) == Catch(KillTracked(m, path, kout), "KillFailed")

\* a stop call as its caller sees it return
StopReturn(path, res, hadLive, scan) ==
  [NoAct EXCEPT !.op = "stop", !.path = path, !.res = res, !.hadLive = hadLive,
                !.env = scan]

FreeStop ==
  IF \E s \in StopIds : stops[s].st = "idle"
  THEN CHOOSE s \in StopIds :
         stops[s].st = "idle" /\ \A t \in StopIds : stops[t].st = "idle" => s <= t
  ELSE 0

\* killProcess is called; it returns at once when kill() throws, and is
\* otherwise suspended on the process query of its platform
KillProcess(path, kout) ==
  /\ act = NoAct
  /\ FreeStop # 0
  /\ LET r == killProcess(Mem, path, kout)
     IN /\ processes' = r.m.p
        /\ detectedUrls' = r.m.u
        /\ handles' = r.m.h
        /\ IF r.res = "pending"
           THEN /\ stops' = [stops EXCEPT ![FreeStop] =
                               [IdleStop EXCEPT !.st = "query", !.path = path,
                                                !.hadLive = r.live]]
                /\ act' = [NoAct EXCEPT !.signals = r.m.k]
           ELSE /\ stops' = stops
                /\ act' = [StopReturn(path, Returned(r), r.live, "")
                             EXCEPT !.signals = r.m.k]
  /\ UNCHANGED <<platform, osProcs>>

\* the pids of the process table whose command line matches the path, in pid order
RECURSIVE MatchingFrom(_, _, _)
MatchingFrom(table, path, p) ==
  IF p > MaxPids THEN <<>>
  ELSE IF table[p].st # "none" /\ Contains(table[p].cmd, path)
       THEN <<p>> \o MatchingFrom(table, path, p + 1)
  ELSE MatchingFrom(table, path, p + 1)
Matching(table, path) == MatchingFrom(table, path, 1)

\* the outcomes of the process query on this platform
QueryChoices == IF platform = "win32" THEN QueryOutcomes ELSE {"error", "list"}

\* killWindowsProcess from the answer of PowerShell to the choice of pidsToKill:
\* the result when it returns here, "kill" when there are processes to kill
WindowsQuery(qout, pids) ==
  IF qout = "error" THEN "QueryFailed"
  ELSE IF qout = "empty" THEN "NoDevServer"
  ELSE IF qout = "garbage" THEN "ParseFailed"
  ELSE IF pids = <<>> THEN "NoDevServer"
  ELSE "kill"

\* killUnixProcess without the test for an empty answer
UnixQueryUnchecked(qout, pids) ==
  IF qout = "error" THEN "NoProcess"
  ELSE IF pids = <<>> THEN "ok"
  ELSE "kill"

\* killUnixProcess from the answer of ps | grep to the kill loop
UnixQuery(qout, pids) ==
  IF qout = "error" THEN "NoProcess"
  ELSE IF pids = <<>> THEN "NoProcess"
  ELSE "kill"

\* the execAsync of the process query of a suspended killProcess completes
StopQuery(s, qout) ==
  /\ act = NoAct
  /\ stops[s].st = "query"
  /\ LET pids == Matching(osProcs, stops[s].path)
         r == IF platform = "win32" THEN WindowsQuery(qout, pids)
              ELSE UnixQuery(qout, pids)
     IN IF r = "kill"
        THEN /\ stops' = [stops EXCEPT ![s].st = "kill", ![s].pids = pids]
             /\ act' = NoAct
        ELSE /\ stops' = [stops EXCEPT ![s] = IdleStop]
             /\ act' = StopReturn(stops[s].path, r, stops[s].hadLive,
                                  IF qout = "list" THEN "nomatch" ELSE qout)
  /\ UNCHANGED <<platform, processes, detectedUrls, handles, osProcs>>

\* the end of killWindowsProcess, after its kill loop
WindowsSweepEnd(m, path, killedCount) ==
  IF killedCount > 0
  THEN [m |-> [m EXCEPT !.p = Delete(m.p, path)], res |-> "ok"]
  ELSE [m |-> m, res |-> "KillNoneSucceeded"]

\* the end of killUnixProcess, after its kill loop
UnixSweepEnd(m, path, killedCount) ==
  [m |-> [m EXCEPT !.p = Delete(m.p, path)], res |-> "ok"]

\* a process the kill command succeeded on: taskkill /PID pid /T /F ends it,
\* kill -TERM pid delivers a signal and the process ends when it handles it
TaskKilled(proc) == IF platform = "win32" THEN NoProc ELSE proc

\* one execAsync of the kill loop completes (ok: the command succeeded); after
\* the last one the sweep ends and killProcess returns
StopKill(s, ok) ==
  /\ act = NoAct
  /\ stops[s].st = "kill"
  /\ LET pid == Head(stops[s].pids)
         rest == Tail(stops[s].pids)
         count == stops[s].killed + (IF ok THEN 1 ELSE 0)
         e == IF platform = "win32" THEN WindowsSweepEnd(Mem, stops[s].path, count)
              ELSE UnixSweepEnd(Mem, stops[s].path, count)
     IN /\ ok => osProcs[pid].st # "none"
        /\ osProcs' = IF ok THEN [osProcs EXCEPT ![pid] = TaskKilled(@)] ELSE osProcs
        /\ IF rest # <<>>
           THEN /\ stops' = [stops EXCEPT ![s].pids = rest, ![s].killed = count]
                /\ act' = NoAct
                /\ processes' = processes
           ELSE /\ stops' = [stops EXCEPT ![s] = IdleStop]
                /\ act' = [StopReturn(stops[s].path, e.res, stops[s].hadLive, "match")
                             EXCEPT !.killed = count]
                /\ processes' = e.m.p
  /\ UNCHANGED <<platform, detectedUrls, handles>>

\* isWindowsProcessRunning, isUnixProcessRunning
SystemProcessRunning(qout, path) ==
  qout = "list" /\ Matching(osProcs, path) # <<>>

\* isProcessRunning
isProcessRunning(m, path, qout) ==
  LET tracked == Get(m.p, path)
  IN IF tracked # 0 /\ ~m.h[tracked].killed THEN TRUE
     ELSE SystemProcessRunning(qout, path)

\* the outcomes of the process query isProcessRunning can meet
RunningChoices(path) ==
  IF Get(processes, path) # 0 /\ ~handles[Get(processes, path)].killed THEN {"list"}
  ELSE QueryChoices

\* an isProcessRunning that, like killUnixProcess, forgets the entry of the path
IsProcessRunningForgetting(path, qout) ==
  /\ act = NoAct \/ AfterStop(path)
  /\ act' = [NoAct EXCEPT !.op = "isRunning", !.path = path,
                          !.res = IF isProcessRunning(Mem, path, qout)
                                  THEN "true" ELSE "false",
                          !.env = qout, !.again = AfterStop(path)]
  /\ processes' = Delete(processes, path)
  /\ UNCHANGED <<platform, detectedUrls, handles, osProcs, stops>>

\* isProcessRunning is called when the event loop is idle, or straight after
\* killProcess returned success for the path
IsProcessRunning(path, qout) ==
  /\ act = NoAct \/ AfterStop(path)
  /\ act' = [NoAct EXCEPT !.op = "isRunning", !.path = path,
                          !.res = IF isProcessRunning(Mem, path, qout)
                                  THEN "true" ELSE "false",
                          !.env = qout, !.again = AfterStop(path)]
  /\ UNCHANGED <<platform, processes, detectedUrls, handles, osProcs, stops>>

\* the loop of cleanup over the entries of this.processes
RECURSIVE CleanupLoop(_, _, _)
CleanupLoop(m, entries, kouts) ==
  IF entries = <<>> THEN [m |-> m, exc |-> FALSE]
  ELSE
    LET e == Head(entries)
        k == IF ~m.h[e.proc].killed THEN Kill(m, e.proc, kouts[e.proc])
             ELSE [m |-> m, exc |-> FALSE]
    IN IF k.exc THEN k
       ELSE CleanupLoop([k.m EXCEPT !.p = Delete(k.m.p, e.path)], Tail(entries), kouts)

\* cleanup without this.detectedUrls.clear()
cleanupKeepsUrls(m, kouts) ==
  LET l == CleanupLoop(m, m.p, kouts)
  IN IF l.exc THEN [m |-> l.m, res |-> "", exc |-> TRUE]
     ELSE [m |-> l.m, res |-> "ok", exc |-> FALSE]

\* cleanup
cleanup(m, kouts) ==
  LET l == CleanupLoop(m, m.p, kouts)
  IN IF l.exc THEN [m |-> l.m, res |-> "", exc |-> TRUE]
     ELSE [m |-> [l.m EXCEPT !.u = [k \in Keys |-> NoUrl]], res |-> "ok", exc |-> FALSE]

\* app.on("before-quit"): processManager.cleanup()
Cleanup(kouts) ==
  /\ act = NoAct
  /\ LET r == cleanup(Mem, kouts)
     IN /\ processes' = r.m.p
        /\ detectedUrls' = r.m.u
        /\ handles' = r.m.h
        /\ act' = [NoAct EXCEPT !.op = "cleanup", !.res = Returned(r),
                                !.signals = r.m.k]
  /\ UNCHANGED <<platform, osProcs, stops>>

\* an interpreter process whose command line holds path k starts
OsStart(p, k) ==
  /\ act = NoAct
  /\ osProcs[p].st = "none"
  /\ osProcs' = [osProcs EXCEPT ![p] = [cmd |-> k, st |-> "live"]]
  /\ act' = NoAct
  /\ UNCHANGED <<platform, processes, detectedUrls, handles, stops>>

\* an interpreter process ends
OsExit(p) ==
  /\ act = NoAct
  /\ osProcs[p].st # "none"
  /\ osProcs' = [osProcs EXCEPT ![p] = NoProc]
  /\ act' = NoAct
  /\ UNCHANGED <<platform, processes, detectedUrls, handles, stops>>

\* the ipcMain handler hands the result of the call to the renderer; the event
\* loop then runs the next callback
Handled ==
  /\ act # NoAct
  /\ act' = NoAct
  /\ UNCHANGED <<platform, processes, detectedUrls, handles, osProcs, stops>>

Init ==
  /\ platform \in Platforms
  /\ processes = <<>>
  /\ detectedUrls = [k \in Keys |-> NoUrl]
  /\ handles = [h \in HandleIds |-> FreeHandle]
  /\ osProcs = [p \in Pids |-> NoProc]
  /\ stops = [s \in StopIds |-> IdleStop]
  /\ act = NoAct

\* the steps of the manager when the dashboard calls it for the projects of paths
NextOver(paths) ==
  \/ \E path \in paths, openInBrowser, openInTerminal \in BOOLEAN :
       \E touts \in TerminalChoices(path, openInTerminal),
          sout \in SpawnChoices(path, openInBrowser, openInTerminal) :
         StartDevServer(path, openInBrowser, openInTerminal, touts, sout)
  \/ \E path \in paths : \E kout \in KillChoices(Get(processes, path)) : KillProcess(path, kout)
  \/ \E s \in StopIds, qout \in QueryChoices : StopQuery(s, qout)
  \/ \E s \in StopIds, ok \in BOOLEAN : StopKill(s, ok)
  \/ \E path \in paths : \E qout \in RunningChoices(path) : IsProcessRunning(path, qout)
  \/ \E kouts \in CleanupChoices : Cleanup(kouts)
  \/ \E h \in HandleIds, chunk \in Chunks :
       \E kout \in OutputChoices(h, chunk) : Output(h, chunk, kout)
  \/ \E h \in HandleIds : ProcExit(h)
  \/ \E h \in HandleIds : ProcError(h)
  \/ \E h \in HandleIds : ProcClose(h)
  \/ \E h \in HandleIds : \E kout \in KillChoices(h) : DetectionTimeout(h, kout)
  \/ \E p \in Pids, k \in Keys : OsStart(p, k)
  \/ \E p \in Pids : OsExit(p)
  \/ Handled

\* one project, whose path contains the path of another project
Next == NextOver({"/app2"})

Spec == Init /\ [][Next]_vars


\* background sessions of one project whose processes write the chunks of
\* UrlChunks
UrlNext ==
  \/ \E openInBrowser \in BOOLEAN, sout \in SpawnOutcomes :
       StartDevServer("/app2", openInBrowser, FALSE, <<"ok">>, sout)
  \/ \E h \in HandleIds, chunk \in UrlChunks : Output(h, chunk, "ok")
  \/ \E h \in HandleIds : ProcExit(h)
  \/ \E h \in HandleIds : ProcError(h)
  \/ \E h \in HandleIds : ProcClose(h)
  \/ Handled

UrlSpec == Init /\ [][UrlNext]_vars

\* the sessions of UrlSpec when every child ends: its 'exit' or 'error' event is
\* delivered at last, and the event loop goes on to the next callback
FairUrlSpec ==
  /\ UrlSpec
  /\ WF_vars(Handled)
  /\ \A h \in HandleIds : SF_vars(ProcExit(h)) /\ SF_vars(ProcError(h))

\* a turn in which the stop runs before the start has registered its child, as
\* if startDevServer were suspended ahead of this.processes.set
StartThenStopReordered(path, openInBrowser, sout, kout) ==
  /\ act = NoAct
  /\ FreeStop # 0
  /\ ~Has(processes, path) => FreeId(handles) # 0
  /\ LET k == killProcess(Mem, path, kout)
         r == startDevServer(k.m, path, openInBrowser, FALSE, <<"ok">>, sout)
     IN /\ processes' = r.m.p
        /\ detectedUrls' = r.m.u
        /\ handles' = r.m.h
        /\ stops' = IF k.res = "pending"
                    THEN [stops EXCEPT ![FreeStop] =
                            [IdleStop EXCEPT !.st = "query", !.path = path,
                                             !.hadLive = k.live]]
                    ELSE stops
        /\ act' = [NoAct EXCEPT !.op = "startStop", !.path = path,
                                !.browser = openInBrowser, !.res = Returned(r),
                                !.h = r.h, !.url = r.url, !.hadLive = k.live,
                                !.env = Returned(k), !.signals = r.m.k]
  /\ UNCHANGED <<platform, osProcs>>

\* a caller's turn that calls startDevServer in background mode and then
\* killProcess for the same path without awaiting the first: each call runs to
\* its first suspension before the turn ends (env: how the stop went on)
StartThenStop(path, openInBrowser, sout, kout) ==
  /\ act = NoAct
  /\ FreeStop # 0
  /\ ~Has(processes, path) => FreeId(handles) # 0
  /\ LET r == startDevServer(Mem, path, openInBrowser, FALSE, <<"ok">>, sout)
         k == killProcess(r.m, path, kout)
     IN /\ processes' = k.m.p
        /\ detectedUrls' = k.m.u
        /\ handles' = k.m.h
        /\ stops' = IF k.res = "pending"
                    THEN [stops EXCEPT ![FreeStop] =
                            [IdleStop EXCEPT !.st = "query", !.path = path,
                                             !.hadLive = k.live]]
                    ELSE stops
        /\ act' = [NoAct EXCEPT !.op = "startStop", !.path = path,
                                !.browser = openInBrowser, !.res = Returned(r),
                                !.h = r.h, !.url = r.url, !.hadLive = k.live,
                                !.env = Returned(k), !.signals = k.m.k]
  /\ UNCHANGED <<platform, osProcs>>

\* one project whose dashboard starts and at once stops its dev server
OrderNext ==
  \/ \E openInBrowser \in BOOLEAN, sout \in SpawnOutcomes, kout \in KillOutcomes :
       StartThenStop("/app2", openInBrowser, sout, kout)
  \/ \E s \in StopIds, qout \in QueryChoices : StopQuery(s, qout)
  \/ \E s \in StopIds, ok \in BOOLEAN : StopKill(s, ok)
  \/ \E h \in HandleIds, chunk \in Chunks : Output(h, chunk, "ok")
  \/ \E h \in HandleIds : ProcExit(h)
  \/ \E h \in HandleIds : ProcError(h)
  \/ \E h \in HandleIds : ProcClose(h)
  \/ \E p \in Pids, k \in Keys : OsStart(p, k)
  \/ \E p \in Pids : OsExit(p)
  \/ Handled

OrderSpec == Init /\ [][OrderNext]_vars

\* two projects, the path of one a substring of the other's, with background
\* sessions whose children can be spawned and signalled
PairNext ==
  \/ \E path \in Keys, openInBrowser \in BOOLEAN :
       StartDevServer(path, openInBrowser, FALSE, <<"ok">>, "ok")
  \/ \E path \in Keys : KillProcess(path, "ok")
  \/ \E s \in StopIds, qout \in QueryChoices : StopQuery(s, qout)
  \/ \E s \in StopIds, ok \in BOOLEAN : StopKill(s, ok)
  \/ \E path \in Keys : \E qout \in RunningChoices(path) : IsProcessRunning(path, qout)
  \/ \E h \in HandleIds, chunk \in Chunks : Output(h, chunk, "ok")
  \/ \E h \in HandleIds : ProcExit(h)
  \/ \E h \in HandleIds : ProcClose(h)
  \/ \E p \in Pids, k \in Keys : OsStart(p, k)
  \/ \E p \in Pids : OsExit(p)
  \/ Handled

PairSpec == Init /\ [][PairNext]_vars

\* terminal sessions of one project with a URL detector, whose signals are
\* delivered
DetNext ==
  \/ \E touts \in TerminalChoices("/app2", TRUE), sout \in SpawnOutcomes :
       StartDevServer("/app2", TRUE, TRUE, touts, sout)
  \/ \E h \in HandleIds, chunk \in Chunks : Output(h, chunk, "ok")
  \/ \E h \in HandleIds : DetectionTimeout(h, "ok")
  \/ \E h \in HandleIds : ProcExit(h)
  \/ \E h \in HandleIds : ProcError(h)
  \/ \E h \in HandleIds : ProcClose(h)
  \/ Handled

DetSpec == Init /\ [][DetNext]_vars

\* the sessions of DetSpec when the 30 s timer fires unless it is cleared, a
\* child that was sent SIGTERM ends, a child that could not be spawned reports
\* its error, and the event loop goes on to the next callback
FairDetSpec ==
  /\ DetSpec
  /\ WF_vars(Handled)
  /\ \A h \in HandleIds :
       /\ SF_vars(DetectionTimeout(h, "ok"))
       /\ SF_vars(ProcExit(h) /\ handles[h].killed)
       /\ SF_vars(ProcError(h))

\* background sessions of one project with URL detection, whose processes
\* write the chunks of a given set
SessionNext(chunks) ==
  \/ \E sout \in SpawnOutcomes : StartDevServer("/app2", TRUE, FALSE, <<"ok">>, sout)
  \/ \E h \in HandleIds, chunk \in chunks : Output(h, chunk, "ok")
  \/ \E h \in HandleIds : ProcExit(h)
  \/ \E h \in HandleIds : ProcError(h)
  \/ \E h \in HandleIds : ProcClose(h)
  \/ Handled

\* the writes of Chunk3000 reach the listener in two pieces
SplitNext == SessionNext(SplitChunks)
SplitSpec == Init /\ [][SplitNext]_vars

\* the processes write lines that end inside a number
JoinNext == SessionNext(JoinChunks)
JoinSpec == Init /\ [][JoinNext]_vars

(***************************************************************************)
(* Properties of the manager.                                              *)
(***************************************************************************)
\* C1, restricted to background mode: when startDevServer has returned success
\* for a path in background mode and is called again for it at once, the second
\* call returns the "already running" error and this.processes still holds the
\* child the first call registered.
StartTwiceInBackground ==
  [][(/\ act.op = "start" /\ act.res = "ok" /\ ~act.terminal
      /\ act'.op = "start" /\ act'.again)
     => /\ act'.res = "AlreadyRunning"
        /\ act.h # 0
        /\ Get(processes', act.path) = act.h
        /\ handles'[act.h] = handles[act.h]]_vars

\* C1 as stated, for every launch mode: a startDevServer that follows at once a
\* successful one for the same path returns the "already running" error.
StartTwiceAnyMode ==
  (act.op = "start" /\ act.again) => act.res = "AlreadyRunning"

StartTwiceInBackgroundWitness ==
  /\ act.op = "start" /\ act.again /\ ~act.terminal
  /\ act.res = "AlreadyRunning"
  /\ Has(processes, act.path)

\* C2: a startDevServer for a path this.processes holds fails and changes
\* nothing: no child is spawned, no terminal launched, no process signalled,
\* and both maps are as before; and this.processes never holds two entries for
\* one path.
StartWhenTrackedHasNoEffect ==
  [][/\ (act'.op = "start" /\ Has(processes, act'.path))
          => /\ act'.res = "AlreadyRunning"
             /\ act'.h = 0
             /\ act'.terminals = 0
             /\ act'.signals = NoSignals
             /\ processes' = processes
             /\ detectedUrls' = detectedUrls
             /\ handles' = handles
     /\ \A i, j \in DOMAIN processes' :
          processes'[i].path = processes'[j].path => i = j]_vars

StartWhenTrackedWitness ==
  /\ act.op = "start" /\ ~act.again /\ act.terminal /\ act.browser
  /\ act.res = "AlreadyRunning"
  /\ Has(processes, act.path)

\* C3: a killProcess that signalled the tracked child returns success when the
\* process query finds no process for the path.
StopOfLiveHandleSucceeds ==
  (act.op = "stop" /\ act.hadLive /\ act.env \in {"nomatch", "empty"})
    => act.res = "ok"

\* C4: a killProcess for a path with no live tracked child, whose process query
\* finds no process for the path, returns the "no running process" error of
\* its platform, and neither its first part nor its return changes
\* this.processes.
StopWithNothingToStop ==
  [][\A s \in StopIds :
       /\ (stops[s].st = "idle" /\ stops'[s].st = "query" /\ ~stops'[s].hadLive)
            => processes' = processes
       /\ (/\ stops[s].st = "query" /\ stops'[s].st = "idle" /\ act'.op = "stop"
           /\ ~stops[s].hadLive
           /\ Matching(osProcs, stops[s].path) = <<>>
           /\ act'.env \in {"nomatch", "empty"})
            => /\ act'.res = IF platform = "win32" THEN "NoDevServer" ELSE "NoProcess"
               /\ processes' = processes]_vars

StopWithNothingToStopWitness ==
  /\ act.op = "stop" /\ ~act.hadLive /\ act.env = "nomatch"
  /\ act.res = "NoProcess"
  /\ platform = "linux"
  /\ ~Has(processes, act.path)
  /\ Matching(osProcs, act.path) = <<>>

\* C5: an isProcessRunning that follows at once a killProcess that signalled the
\* tracked child of the path and returned success returns false.
NotRunningAfterStop ==
  (act.op = "isRunning" /\ act.again) => act.res = "false"

\* C6: the listeners of one child assign this.detectedUrls at most once and
\* call the browser opener at most once, whatever chunks follow the first that
\* holds a URL.
UrlAssignedOncePerSession ==
  \A h \in HandleIds : handles[h].sets <= 1 /\ handles[h].opens <= 1

UrlAssignedOnceWitness ==
  /\ act.op = "data" /\ act.again
  /\ handles[act.h].watch
  /\ handles[act.h].sets = 1
  /\ handles[act.h].opens = 1

\* C7: startDevServer and killProcess never throw: whatever spawn, kill or the
\* process query does, the call returns a result.
NeverThrows ==
  act.op \in {"start", "stop"} => act.res # "threw"

NeverThrowsWitness ==
  \/ act.op = "start" /\ act.res = "LaunchFailed"
  \/ act.op = "stop" /\ act.res = "KillFailed"

\* C8: on Linux a startDevServer with openInTerminal and openInBrowser, when no
\* terminal of the list can be spawned, returns the "no compatible terminal
\* emulator" error and spawns no detector.
NoTerminalIsReported ==
  (/\ platform = "linux" /\ act.op = "start"
   /\ act.terminal /\ act.browser /\ act.env = "noTerminal")
    => act.res = "NoTerminalEmulator" /\ act.h = 0

CleanupEmptiesAndSignals ==
  [][(act'.op = "cleanup" /\ act'.res = "ok")
     => /\ processes' = <<>>
        /\ \A k \in Keys : detectedUrls'[k] = NoUrl
        /\ \A h \in HandleIds :
             act'.signals[h] =
               IF (\E i \in DOMAIN processes : processes[i].proc = h)
                    /\ ~handles[h].killed
               THEN 1 ELSE 0]_vars

CleanupWitness ==
  /\ act.op = "cleanup" /\ act.res = "ok"
  /\ \E h \in HandleIds : act.signals[h] = 1 /\ handles[h].kind = "bg"
  /\ processes = <<>>

\* the number of "://" in url from index i on
RECURSIVE Schemes(_, _)
Schemes(url, i) ==
  IF i > Len(url) THEN 0
  ELSE (IF LitAt(url, i, <<":", "/", "/">>) THEN 1 ELSE 0) + Schemes(url, i + 1)

\* C11: every URL the detector returns carries exactly one scheme prefix,
\* http:// or https:// in any letter case, and does not end with a slash; the
\* chunk "Local: http://localhost:3000/\n" gives http://localhost:3000 and
\* "ready on 127.0.0.1:8080" gives http://127.0.0.1:8080.
DetectedUrlIsNormalised ==
  /\ \A k \in Keys :
       detectedUrls[k] # NoUrl
         => /\ \/ LitAt(detectedUrls[k], 1, HttpScheme)
               \/ LitAt(detectedUrls[k], 1, <<"h", "t", "t", "p", "s", ":", "/", "/">>)
            /\ Schemes(detectedUrls[k], 1) = 1
            /\ detectedUrls[k][Len(detectedUrls[k])] # "/"
  /\ UrlOf[Chunk3000] = HttpScheme \o Localhost \o <<":", "3", "0", "0", "0">>
  /\ UrlOf[ChunkBare] = HttpScheme \o Loopback4 \o <<":", "8", "0", "8", "0">>

\* C12: a startDevServer with openInTerminal that returns success leaves
\* this.processes as it was, with or without openInBrowser, and no detector is
\* ever an entry of this.processes.
TerminalStartRegistersNothing ==
  [][/\ (act'.op = "start" /\ act'.terminal /\ act'.res = "ok")
          => processes' = processes
     /\ \A i \in DOMAIN processes' : handles'[processes'[i].proc].kind = "bg"]_vars

TerminalStartWitness ==
  /\ act.op = "start" /\ act.terminal /\ act.browser /\ act.res = "ok"
  /\ act.h # 0
  /\ handles[act.h].kind = "det"
  /\ ~Has(processes, act.path)

\* C13: the 'exit' or 'error' event of a background child removes the entry and
\* the detected URL of its path; so when the events of the children are
\* delivered at last, a path with a running background child comes to have no
\* entry and no detected URL.
ExitEndsSession ==
  /\ [][\A h \in HandleIds :
          (/\ handles[h].kind = "bg" /\ handles[h].handlers
           /\ handles[h].phase = "run" /\ handles'[h].phase = "exited")
            => /\ ~Has(processes', handles[h].path)
               /\ detectedUrls'[handles[h].path] = NoUrl]_vars
  /\ \A h \in HandleIds :
       (handles[h].kind = "bg" /\ handles[h].handlers /\ handles[h].phase = "run")
         ~> (~Has(processes, "/app2") /\ detectedUrls["/app2"] = NoUrl)

ExitEndsSessionWitness ==
  \E h \in HandleIds :
    /\ handles[h].kind = "bg" /\ handles[h].handlers
    /\ handles[h].phase = "exited"
    /\ handles[h].sets = 1
    /\ ~Has(processes, handles[h].path)
    /\ detectedUrls[handles[h].path] = NoUrl

\* C14: the 'exit' or 'error' event of a child leaves the entry and the
\* detected URL of every other tracked child as they are.
ExitRemovesOnlyItsOwnSession ==
  [][\A h \in HandleIds :
       (handles[h].phase = "run" /\ handles'[h].phase = "exited")
         => \A i \in DOMAIN processes :
              processes[i].proc # h
                => /\ Get(processes', processes[i].path) = processes[i].proc
                   /\ detectedUrls'[processes[i].path] = detectedUrls[processes[i].path]]_vars

\* C15: a killProcess that resumes after its process query removes a live
\* child from this.processes (one registered while it was suspended) only when
\* one of its kill commands succeeded.
ResumedStopKeepsLiveHandle ==
  [][\A s \in StopIds :
       (/\ stops[s].st = "kill" /\ stops'[s].st = "idle"
        /\ Has(processes, stops[s].path)
        /\ handles[Get(processes, stops[s].path)].phase = "run"
        /\ ~handles[Get(processes, stops[s].path)].killed
        /\ ~Has(processes', stops[s].path))
         => act'.killed > 0]_vars

\* C16: when killProcess returns success, this.processes has no entry and
\* this.detectedUrls no URL for the path.
StopClearsSession ==
  (act.op = "stop" /\ act.res = "ok")
    => ~Has(processes, act.path) /\ detectedUrls[act.path] = NoUrl

\* C17: a chunk of output that arrives straight after killProcess returned
\* success for the path assigns no detected URL and opens no browser.
NoDetectionAfterStop ==
  [][(act'.op = "data" /\ act'.env = "afterStop")
       => /\ detectedUrls' = detectedUrls
          /\ \A h \in HandleIds : handles'[h].opens = handles[h].opens]_vars

\* C18: the url of a successful background-mode startDevServer is absent or was
\* detected from the output of the child the call spawned.
StartUrlIsOfItsOwnChild ==
  (act.op = "start" /\ ~act.terminal /\ act.res = "ok" /\ act.url # NoUrl)
    => handles[act.h].sets > 0

\* C19: a killProcess whose process query found processes of the path returns
\* success if and only if at least one of its kill commands succeeded.
SweepSucceedsIffKilled ==
  (act.op = "stop" /\ act.env = "match")
    => (act.res = "ok" <=> act.killed > 0)

\* C20, at the moment the query starts: when killProcess finds a live tracked
\* child and its kill() does not throw, then before the process query starts
\* kill has been called once on the child and the entry of the path is gone,
\* whether or not the signal was delivered.
LiveHandleForgottenBeforeQuery ==
  [][\A s \in StopIds :
       (stops[s].st = "idle" /\ stops'[s].st = "query" /\ stops'[s].hadLive)
         => /\ Has(processes, stops'[s].path)
            /\ act'.signals[Get(processes, stops'[s].path)] = 1
            /\ ~Has(processes', stops'[s].path)]_vars

\* C20 as stated: while a killProcess that found a live tracked child is
\* suspended on its process query, this.processes has no entry for the path.
NoEntryWhileStopSuspended ==
  \A s \in StopIds :
    (stops[s].st = "query" /\ stops[s].hadLive) => ~Has(processes, stops[s].path)

LiveHandleForgottenWitness ==
  \E s \in StopIds, h \in HandleIds :
    /\ stops[s].st = "query" /\ stops[s].hadLive
    /\ act.signals[h] = 1
    /\ handles[h].kind = "bg" /\ handles[h].phase = "run" /\ ~handles[h].killed
    /\ ~Has(processes, stops[s].path)

\* C21: isProcessRunning changes nothing: whatever the process query answers,
\* this.processes, this.detectedUrls, the children and the process table are
\* the same before and after the call and kill is called on no child; and it
\* returns true when this.processes holds a child of the path that is not killed.
IsRunningMutatesNothing ==
  [][act'.op = "isRunning"
       => /\ processes' = processes
          /\ detectedUrls' = detectedUrls
          /\ handles' = handles
          /\ osProcs' = osProcs
          /\ stops' = stops
          /\ act'.signals = NoSignals
          /\ (Get(processes, act'.path) # 0 /\ ~handles[Get(processes, act'.path)].killed)
               => act'.res = "true"]_vars

IsRunningWitness ==
  /\ act.op = "isRunning" /\ act.res = "true"
  /\ Get(processes, act.path) # 0
  /\ handles[Get(processes, act.path)].phase = "run"
  /\ detectedUrls[act.path] # NoUrl
  /\ Matching(osProcs, act.path) = <<>>

\* C22, for a kill() that returns: a killProcess called in the same turn
\* straight after a startDevServer that returned success in background mode
\* finds the child that call registered, calls kill on it once and removes the
\* entry before the turn ends; and no step other than a further start gives
\* the path an entry while a stop is suspended or when it returns.
StopAfterStartSeesHandle ==
  [][/\ (act'.op = "startStop" /\ act'.res = "ok" /\ act'.env = "pending")
          => /\ act'.h # 0
             /\ act'.hadLive
             /\ act'.signals = [NoSignals EXCEPT ![act'.h] = 1]
             /\ ~Has(processes', act'.path)
     /\ \A s \in StopIds :
          (/\ stops[s].st # "idle"
           /\ ~Has(processes, stops[s].path)
           /\ act'.op # "startStop")
            => ~Has(processes', stops[s].path)]_vars

StopAfterStartWitness ==
  /\ act.op = "stop" /\ act.hadLive /\ act.res = "ok"
  /\ ~Has(processes, act.path)
  /\ \E h \in HandleIds :
       handles[h].kind = "bg" /\ handles[h].killed /\ handles[h].phase = "run"

\* C23: operations on one path leave the sessions of every other path alone: a
\* step of startDevServer, killProcess, isProcessRunning or of a child's
\* callback changes the entry and the detected URL of its own path only, and a
\* killProcess issues its kill commands only for interpreter processes of its
\* own path, also when its path is a substring of another project's path.
KeysAreIndependent ==
  [][/\ \A a, b \in Keys :
          (a # b /\ (act'.path = a \/ \E s \in StopIds : stops[s].path = a \/ stops'[s].path = a)
             /\ ~(\E s \in StopIds : stops[s].path = b \/ stops'[s].path = b)
             /\ act'.path # b
             /\ ~(\E h \in HandleIds : handles[h].path = b /\ handles'[h] # handles[h]))
            => /\ Get(processes', b) = Get(processes, b)
               /\ detectedUrls'[b] = detectedUrls[b]
     /\ \A s \in StopIds :
          (stops[s].st = "query" /\ stops'[s].st = "kill")
            => \A i \in DOMAIN stops'[s].pids :
                 osProcs[stops'[s].pids[i]].cmd = stops[s].path]_vars

\* C24: a child started with openInBrowser false has no URL detection: its
\* chunks, whatever they hold, assign no detected URL, open no browser and
\* signal no process; and a startDevServer with openInTerminal and without
\* openInBrowser spawns no detector.  A child is without detection from the
\* start that spawned it without openInBrowser on.
NoDetectionWithoutBrowser ==
  [][/\ \A h \in HandleIds :
          (handles'[h].kind \in {"bg", "det"} /\ ~handles'[h].watch)
            => handles'[h].sets = 0 /\ handles'[h].opens = 0
     /\ (act'.op = "data" /\ ~handles[act'.h].watch)
          => /\ detectedUrls' = detectedUrls
             /\ processes' = processes
             /\ act'.signals = NoSignals
     /\ (act'.op = "start" /\ act'.terminal /\ ~act'.browser)
          => act'.h = 0 /\ handles' = handles
     /\ (act'.op = "start" /\ ~act'.browser /\ act'.h # 0)
          => ~handles'[act'.h].watch
     /\ \A h \in HandleIds :
          (handles[h].kind = "bg" /\ handles'[h].kind = "bg")
            => handles'[h].watch = handles[h].watch]_vars

NoDetectionWithoutBrowserWitness ==
  /\ act.op = "data"
  /\ handles[act.h].kind = "bg" /\ handles[act.h].pid /\ ~handles[act.h].watch
  /\ Get(processes, act.path) = act.h
  /\ detectedUrls[act.path] = NoUrl

\* C25: every detector stops being alive at last: the chunk in which its first
\* URL is found clears its timeout and, unless the detector is killed already,
\* calls kill on it once; no kill is called on a detector after it has found a
\* URL, so the timeout never signals it then; a timeout that fires before any
\* URL calls kill on a detector that is not killed.
DetectorEnds ==
  /\ [][\A h \in HandleIds :
          handles[h].kind = "det"
            => /\ (~handles[h].urlFound /\ handles'[h].urlFound)
                    => /\ handles'[h].timer # "armed"
                       /\ handles'[h].timer = "fired" <=> handles[h].timer = "fired"
                       /\ act'.signals[h] = IF handles[h].killed THEN 0 ELSE 1
               /\ handles[h].urlFound => act'.signals[h] = 0
               /\ (handles[h].timer = "armed" /\ handles'[h].timer = "fired")
                    => /\ ~handles[h].urlFound
                       /\ act'.signals[h] = IF handles[h].killed THEN 0 ELSE 1]_vars
  /\ \A h \in HandleIds :
       (handles[h].kind = "det") ~> (handles[h].phase # "run")

DetectorEndsWitness ==
  \E h \in HandleIds :
    /\ handles[h].kind = "det" /\ handles[h].pid
    /\ handles[h].urlFound /\ handles[h].killed
    /\ handles[h].timer = "cleared"
    /\ handles[h].phase = "exited"

\* C26: when cleanup has returned, no child the manager spawned is left running
\* without having been signalled; in particular every detector that is still
\* running has been killed, so that it cannot assign a detected URL or open
\* the browser afterwards.
CleanupEndsDetectors ==
  (act.op = "cleanup" /\ act.res = "ok")
    => \A h \in HandleIds :
         (handles[h].kind = "det" /\ handles[h].pid /\ handles[h].phase = "run")
           => handles[h].killed

\* C27: when the process query of killProcess fails or its output cannot be
\* parsed, the call returns a query-failed error, which differs from the
\* no-process errors, on every platform; and isProcessRunning returns false
\* then.
QueryFailureIsReported ==
  /\ (act.op = "stop" /\ act.env \in {"error", "garbage"})
       => act.res \in {"QueryFailed", "ParseFailed"}
  /\ (act.op = "isRunning" /\ act.env \in {"error", "garbage"})
       => act.res = "false"

\* C28: a background startDevServer whose spawn gives a child without a pid
\* returns the "no PID assigned" error and leaves this.processes and
\* this.detectedUrls as they were; the child gets no data listener and no
\* 'exit' or 'error' listener, so its later 'error' event changes neither map;
\* the path has no entry afterwards, and a start is rejected as already running
\* only for a path that has one.
NoPidRegistersNothing ==
  [][/\ (act'.op = "start" /\ act'.res = "NoPidAssigned")
          => /\ ~act'.terminal
             /\ processes' = processes
             /\ detectedUrls' = detectedUrls
             /\ ~Has(processes', act'.path)
             /\ act'.h # 0
             /\ ~handles'[act'.h].pid
             /\ ~handles'[act'.h].watch
             /\ ~handles'[act'.h].handlers
             /\ act'.signals = NoSignals
     /\ (act'.op = "start" /\ act'.res = "AlreadyRunning")
          => Has(processes, act'.path)
     /\ \A h \in HandleIds :
          (handles[h].kind = "bg" /\ ~handles[h].pid /\ handles'[h] # handles[h])
            => processes' = processes /\ detectedUrls' = detectedUrls]_vars

NoPidWitness ==
  /\ act.op = "start" /\ ~act.terminal /\ act.res = "ok"
  /\ Get(processes, act.path) = act.h
  /\ \E h \in HandleIds :
       /\ h # act.h
       /\ handles[h].kind = "bg" /\ handles[h].path = act.path
       /\ ~handles[h].pid /\ handles[h].errPending

\* C29: when a write that holds a URL reaches the listener cut in two inside
\* the URL, at any place up to the inside of the port number, extractUrl finds
\* no URL in either piece: no detected URL is assigned and no browser opened.
SplitUrlIsMissed ==
  /\ \A k \in Keys : detectedUrls[k] = NoUrl
  /\ \A h \in HandleIds : handles[h].opens = 0

\* does text t occur in s at index i or later
RECURSIVE OccursFrom(_, _, _)
OccursFrom(s, t, i) ==
  IF i + Len(t) - 1 > Len(s) THEN FALSE
  ELSE IF SubSeq(s, i, i + Len(t) - 1) = t THEN TRUE
  ELSE OccursFrom(s, t, i + 1)

\* the host:port part of a URL: what follows its "://"
HostPort(url) ==
  From(url, (CHOOSE i \in 1..Len(url) : LitAt(url, i, <<":", "/", "/">>)) + 3)

\* C30: the host:port part of every detected URL stands as it is, as one piece
\* of text, in a chunk the process wrote; and the chunk with the colour codes
\* around http://localhost:4000 gives http://localhost:4000.
DetectedUrlOccursInChunk ==
  /\ \A k \in Keys :
       detectedUrls[k] # NoUrl
         => \E c \in JoinChunks : OccursFrom(c, HostPort(detectedUrls[k]), 1)
  /\ UrlOf[Chunk4000] = HttpScheme \o Localhost \o <<":", "4", "0", "0", "0">>

====
